---- MODULE Spec2Model ----
(***************************************************************************)
(* _BaseVertexAIVectorStore (vectorstores.py): a vector store that keeps   *)
(* documents in a DocumentStorage and their embeddings in a Searcher.      *)
(* State is the content of the two backends and a record of the most       *)
(* recent operation: its arguments, the delegate calls it made (in order)  *)
(* and what it returned or raised.                                         *)
(***************************************************************************)
EXTENDS Integers, Sequences, FiniteSets, TLC

\* ---- bounds ----
MaxIds == 2
MaxTexts == 2
MaxK == 2

\* ---- input domains ----
Ids == 1..MaxIds
Texts == {"a", "b"}
Metas == { {}, {<<"k", 1>>} }
Queries == {"b"}
\* (filter, numeric_filter) argument pairs
FilterArgs == {<<"color:red", "cost<5">>}
Overwrites == BOOLEAN
Ks == 1..MaxK
AddFailures == {"none", "mset", "embed_documents", "add_to_index"}
SearchFailures == {"none", "embed_query", "find_neighbors", "mget"}

VARIABLES storage, index, op, calls, result

vars == <<storage, index, op, calls, result>>

\* ---- Python helpers ----
SeqsUpTo(S, n) == UNION {[1..m -> S] : m \in 0..n}

Min(a, b) == IF a < b THEN a ELSE b

Range(s) == {s[i] : i \in 1..Len(s)}

Zip(a, b) == [i \in 1..Min(Len(a), Len(b)) |-> <<a[i], b[i]>>]

Firsts(pairs) == [i \in 1..Len(pairs) |-> pairs[i][1]]

Seconds(pairs) == [i \in 1..Len(pairs) |-> pairs[i][2]]

\* Optional[Document]: None is the empty set, a present document a singleton.
NoDocument == {}

Present(o) == CHOOSE d \in o : TRUE

Document(text, metadata) == [page_content |-> text, metadata |-> metadata]

Call(fn, args) == [fn |-> fn, args |-> args]

Returned(value) == [kind |-> "ok", value |-> value]

Raised(kind, value) == [kind |-> kind, value |-> value]

\* ---- the delegates ----
\* Embeddings: a fixed map from text to vector.
embed_query(text) == IF text = "a" THEN <<1, 0>> ELSE <<0, 1>>

embed_documents(texts) == [i \in 1..Len(texts) |-> embed_query(texts[i])]

\* DocumentStorage.mset: keyed write of every (id, document) pair.
mset(store, pairs) ==
  [key \in DOMAIN store \cup Range(Firsts(pairs)) |->
     IF \E i \in 1..Len(pairs) : pairs[i][1] = key
       THEN pairs[CHOOSE i \in 1..Len(pairs) :
                    /\ pairs[i][1] = key
                    /\ \A j \in (i+1)..Len(pairs) : pairs[j][1] # key][2]
       ELSE store[key]]

\* DocumentStorage.mget: one slot per key, in key order, None where missing.
mget(store, keys) ==
  [i \in 1..Len(keys) |->
     IF keys[i] \in DOMAIN store THEN {store[keys[i]]} ELSE NoDocument]

\* Searcher.add_to_index: upsert, or replacement of the whole index.
add_to_index(idx, ids, embeddings, metadatas, is_complete_overwrite) ==
  LET n == Min(Len(ids), Min(Len(embeddings), Len(metadatas)))
      new == {ids[i] : i \in 1..n}
      entry(key) == LET i == CHOOSE j \in 1..n :
                                /\ ids[j] = key
                                /\ \A l \in (j+1)..n : ids[l] # key
                    IN [embedding |-> embeddings[i], metadata |-> metadatas[i]]
      kept == IF is_complete_overwrite THEN {} ELSE DOMAIN idx
  IN [key \in kept \cup new |-> IF key \in new THEN entry(key) ELSE idx[key]]

\* Searcher.find_neighbors: one ranked (id, distance) list per query vector.
find_neighbors(response, embeddings, k) ==
  [i \in 1..Len(embeddings) |-> response]

\* ---- _BaseVertexAIVectorStore ----
\* One id per slot, each a separate uuid4 draw.
_generate_unique_ids_repeated(number, uuid4) == [i \in 1..number |-> uuid4[1]]

_generate_unique_ids(number, uuid4) == [i \in 1..number |-> uuid4[i]]

\* The delegate calls of add_texts after validation, in program order.
AddTextsPlanEmbedFirst == <<"embed_documents", "mset", "add_to_index">>

AddTextsPlanIndexFirst == <<"embed_documents", "add_to_index", "mset">>

AddTextsPlan == <<"mset", "embed_documents", "add_to_index">>

\* metadatas = [{}] * len(texts) when None.
DefaultMetadatas(texts, metadatas) ==
  IF metadatas.is_none THEN [i \in 1..Len(texts) |-> {}] ELSE metadatas.list

\* The length check: add_texts goes on only if it holds.
ValidMetadatasUnchecked(texts, metadatas) == TRUE

ValidMetadatas(texts, metadatas) == Len(metadatas) = Len(texts)

Documents(texts, metadatas) ==
  [i \in 1..Len(Zip(texts, metadatas)) |->
     Document(Zip(texts, metadatas)[i][1], Zip(texts, metadatas)[i][2])]

\* How add_texts ends: a delegate's exception passes through, else the ids.
AddTextsOutcomeSwallowed(ids, raised, fail) == Returned(ids)

AddTextsOutcome(ids, raised, fail) ==
  IF raised THEN Raised("DelegateError", fail) ELSE Returned(ids)

\* add_texts as a function of the backends, the arguments and the environment
\* (the uuid4 draws and the delegate that raises, if any).
add_texts(store, idx, texts, metadatas_arg, is_complete_overwrite, env) ==
  LET ids == _generate_unique_ids(Len(texts), env.uuid4)
      metadatas == DefaultMetadatas(texts, metadatas_arg)
  IN IF ~ValidMetadatas(texts, metadatas)
       THEN [storage |-> store, index |-> idx, calls |-> <<>>,
             result |-> Raised("ValueError", <<Len(metadatas), Len(texts)>>)]
       ELSE
         LET documents == Documents(texts, metadatas)
             embeddings == embed_documents(texts)
             plan == AddTextsPlan
             failsAt == IF \E i \in 1..Len(plan) : plan[i] = env.fail
                          THEN CHOOSE i \in 1..Len(plan) : plan[i] = env.fail
                          ELSE Len(plan) + 1
             done(fn) == \E i \in 1..Len(plan) : plan[i] = fn /\ i < failsAt
             call(fn) ==
               IF fn = "mset" THEN Call(fn, <<Zip(ids, documents)>>)
               ELSE IF fn = "embed_documents" THEN Call(fn, <<texts>>)
               ELSE Call(fn, <<ids, embeddings, metadatas, is_complete_overwrite>>)
         IN [storage |-> IF done("mset") THEN mset(store, Zip(ids, documents))
                         ELSE store,
             index |-> IF done("add_to_index")
                         THEN add_to_index(idx, ids, embeddings, metadatas,
                                           is_complete_overwrite)
                         ELSE idx,
             calls |-> [i \in 1..Min(failsAt, Len(plan)) |-> call(plan[i])],
             result |-> AddTextsOutcome(ids, failsAt <= Len(plan), env.fail)]

\* list(zip(documents, distances)) once every slot holds a document.
ResultPairsReversed(documents, distances) ==
  [i \in 1..Len(Zip(documents, distances)) |->
     <<Present(documents[Len(Zip(documents, distances)) + 1 - i]), distances[i]>>]

ResultPairs(documents, distances) ==
  [i \in 1..Len(Zip(documents, distances)) |->
     <<Present(documents[i]), distances[i]>>]

\* [key for key, doc in zip(keys, documents) if doc is None]
MissingDocsAllKeys(keys, documents) == Firsts(Zip(keys, documents))

MissingDocs(keys, documents) ==
  Firsts(SelectSeq(Zip(keys, documents), LAMBDA p : p[2] = NoDocument))

similarity_search_by_vector_with_score(store, embedding, k, filter, numeric_filter, env) ==
  LET c1 == Call("find_neighbors", <<<<embedding>>, k, filter, numeric_filter>>)
  IN IF env.fail = "find_neighbors"
       THEN [calls |-> <<c1>>, result |-> Raised("DelegateError", env.fail)]
       ELSE
         LET neighbors_list == find_neighbors(env.response, <<embedding>>, k)
             keys == Firsts(neighbors_list[1])
             distances == Seconds(neighbors_list[1])
             c2 == Call("mget", <<keys>>)
         IN IF env.fail = "mget"
              THEN [calls |-> <<c1, c2>>,
                    result |-> Raised("DelegateError", env.fail)]
              ELSE
                LET documents == mget(store, keys)
                IN [calls |-> <<c1, c2>>,
                    result |->
                      IF \A i \in 1..Len(documents) : documents[i] # NoDocument
                        THEN Returned(ResultPairs(documents, distances))
                        ELSE Raised("ValueError", MissingDocs(keys, documents))]

similarity_search_with_score(store, query, k, filter, numeric_filter, env) ==
  LET c0 == Call("embed_query", <<query>>)
  IN IF env.fail = "embed_query"
       THEN [calls |-> <<c0>>, result |-> Raised("DelegateError", env.fail)]
       ELSE
         LET embbedings == embed_query(query)
             r == similarity_search_by_vector_with_score(
                    store, embbedings, k, filter, numeric_filter, env)
         IN [calls |-> <<c0>> \o r.calls, result |-> r.result]

\* [document for document, _ in similarity_search_with_score(...)]
similarity_search_first_only(store, query, k, filter, numeric_filter, env) ==
  LET r == similarity_search_with_score(store, query, k, filter,
                                        numeric_filter, env)
  IN [calls |-> r.calls,
      result |-> IF r.result.kind = "ok"
                   THEN Returned([i \in 1..Min(1, Len(r.result.value)) |->
                                    r.result.value[i][1]])
                   ELSE r.result]

similarity_search(store, query, k, filter, numeric_filter, env) ==
  LET r == similarity_search_with_score(store, query, k, filter,
                                        numeric_filter, env)
  IN [calls |-> r.calls,
      result |-> IF r.result.kind = "ok"
                   THEN Returned([i \in 1..Len(r.result.value) |->
                                    r.result.value[i][1]])
                   ELSE r.result]

\* from_texts: raises, touching nothing.
from_texts_embeds(store, idx, texts, metadatas) ==
  [storage |-> store, index |-> idx,
   calls |-> <<Call("embed_documents", <<texts>>)>>,
   result |-> Returned("store")]

from_texts(store, idx, texts, metadatas) ==
  [storage |-> store, index |-> idx, calls |-> <<>>,
   result |-> Raised("NotImplementedError", "use from_components")]

\* ---- environment ----
\* uuid4 draws: values no earlier draw has produced and not yet in a backend.
FreshIds == Ids \ (DOMAIN storage \cup DOMAIN index)

Uuid4Draws(n) == {s \in [1..n -> FreshIds] : \A i, j \in 1..n : i # j => s[i] # s[j]}

\* The environment of one add_texts: its uuid4 draws and the delegate that
\* raises. A call stopped by the length check reaches no delegate and uses no
\* id, so one environment stands for all of them.
AddEnvs(texts, metadatas) ==
  IF ValidMetadatas(texts, DefaultMetadatas(texts, metadatas))
    THEN {[uuid4 |-> u, fail |-> f] :
            u \in Uuid4Draws(Len(texts)), f \in AddFailures}
    ELSE {[uuid4 |-> CHOOSE u \in Uuid4Draws(Len(texts)) : TRUE,
           fail |-> "none"]}

MetadataArgs ==
  {[is_none |-> TRUE, list |-> <<>>]}
    \cup {[is_none |-> FALSE, list |-> l] : l \in SeqsUpTo(Metas, MaxTexts)}

\* What the searcher answers: at most k neighbours, ranked by ascending
\* distance; the neighbour of rank i is given distance i.
Rankings(k) == SeqsUpTo(Ids, k)

Response(ranking) == [i \in 1..Len(ranking) |-> <<ranking[i], i>>]

\* A searcher that raises answers nothing.
SearchEnvs(k, failures) ==
  {[response |-> Response(r), fail |-> f] : r \in Rankings(k), f \in {"none", "mget"} \cap failures}
    \cup {[response |-> <<>>, fail |-> f] : f \in failures \ {"none", "mget"}}

\* ---- state machine ----
Init ==
  /\ storage = <<>>
  /\ index = <<>>
  /\ op = [name |-> "init"]
  /\ calls = <<>>
  /\ result = Returned(<<>>)

AddTexts ==
  \E texts \in SeqsUpTo(Texts, MaxTexts), metadatas \in MetadataArgs,
     is_complete_overwrite \in Overwrites :
    /\ Len(texts) <= Cardinality(FreshIds)
    /\ \E env \in AddEnvs(texts, metadatas) :
         LET r == add_texts(storage, index, texts, metadatas,
                            is_complete_overwrite, env)
         IN /\ storage' = r.storage
            /\ index' = r.index
            /\ calls' = r.calls
            /\ result' = r.result
            /\ op' = [name |-> "add_texts", texts |-> texts,
                      metadatas |-> metadatas,
                      is_complete_overwrite |-> is_complete_overwrite,
                      env |-> env]

SimilaritySearchByVectorWithScore ==
  \E query \in Queries, k \in Ks, f \in FilterArgs :
    \E env \in SearchEnvs(k, SearchFailures \ {"embed_query"}) :
      LET r == similarity_search_by_vector_with_score(
                 storage, embed_query(query), k, f[1], f[2], env)
      IN /\ calls' = r.calls
         /\ result' = r.result
         /\ op' = [name |-> "similarity_search_by_vector_with_score",
                   embedding |-> embed_query(query), k |-> k,
                   filter |-> f[1], numeric_filter |-> f[2], env |-> env]
         /\ UNCHANGED <<storage, index>>

SimilaritySearchWithScore ==
  \E query \in Queries, k \in Ks, f \in FilterArgs :
    \E env \in SearchEnvs(k, SearchFailures) :
      LET r == similarity_search_with_score(
                 storage, query, k, f[1], f[2], env)
      IN /\ calls' = r.calls
         /\ result' = r.result
         /\ op' = [name |-> "similarity_search_with_score",
                   query |-> query, k |-> k,
                   filter |-> f[1], numeric_filter |-> f[2], env |-> env]
         /\ UNCHANGED <<storage, index>>

SimilaritySearch ==
  \E query \in Queries, k \in Ks, f \in FilterArgs :
    \E env \in SearchEnvs(k, SearchFailures) :
      LET r == similarity_search(storage, query, k, f[1], f[2], env)
      IN /\ calls' = r.calls
         /\ result' = r.result
         /\ op' = [name |-> "similarity_search",
                   query |-> query, k |-> k,
                   filter |-> f[1], numeric_filter |-> f[2], env |-> env]
         /\ UNCHANGED <<storage, index>>

FromTexts ==
  \E texts \in SeqsUpTo(Texts, MaxTexts), metadatas \in MetadataArgs :
    LET r == from_texts(storage, index, texts, metadatas)
    IN /\ storage' = r.storage
       /\ index' = r.index
       /\ calls' = r.calls
       /\ result' = r.result
       /\ op' = [name |-> "from_texts", texts |-> texts,
                 metadatas |-> metadatas]

Next ==
  \/ AddTexts
  \/ SimilaritySearchByVectorWithScore
  \/ SimilaritySearchWithScore
  \/ SimilaritySearch
  \/ FromTexts

Spec == Init /\ [][Next]_vars

\* ---- properties ----
IsAddTexts == op.name = "add_texts"

IsScoredSearch ==
  op.name \in {"similarity_search_with_score",
               "similarity_search_by_vector_with_score"}

IsSearch == IsScoredSearch \/ op.name = "similarity_search"

Mismatched ==
  /\ IsAddTexts
  /\ ~op.metadatas.is_none
  /\ Len(op.metadatas.list) # Len(op.texts)

PassedValidation == IsAddTexts /\ ~Mismatched

GivenMetadatas == DefaultMetadatas(op.texts, op.metadatas)

CallNames == [i \in 1..Len(calls) |-> calls[i].fn]

IsPrefix(s, t) == Len(s) <= Len(t) /\ \A i \in 1..Len(s) : s[i] = t[i]

ResponseIds == Firsts(op.env.response)

\* C1: a successful add_texts of a non-empty sequence of texts returns one id
\* per text, in input order: the i-th id is the storage key of the i-th text's
\* document and is paired with the i-th embedding in the upsert; the ids of
\* the call are pairwise distinct.
C1_OneIdPerText ==
  (IsAddTexts /\ Len(op.texts) > 0 /\ ~Mismatched /\ result.kind = "ok") =>
    /\ Len(result.value) = Len(op.texts)
    /\ \A i \in 1..Len(op.texts) :
         /\ result.value[i] \in DOMAIN storage
         /\ storage[result.value[i]] = Document(op.texts[i], GivenMetadatas[i])
         /\ calls[1].args[1][i] =
              <<result.value[i], Document(op.texts[i], GivenMetadatas[i])>>
         /\ calls[3].args[1][i] = result.value[i]
         /\ calls[3].args[2][i] = embed_query(op.texts[i])
    /\ \A i, j \in 1..Len(result.value) :
         i # j => result.value[i] # result.value[j]

C1_Witness ==
  /\ IsAddTexts
  /\ result.kind = "ok"
  /\ Len(op.texts) = 2
  /\ op.texts[1] # op.texts[2]
  /\ ~op.metadatas.is_none
  /\ result.value[1] > result.value[2]

\* C2: add_texts with a metadatas list of another length than the texts
\* raises the validation error with no call to mset, embed_documents or
\* add_to_index, and leaves storage and index as they were.
C2_MismatchFailsFast ==
  [][Mismatched' =>
       /\ result'.kind = "ValueError"
       /\ result'.value = <<Len(op'.metadatas.list), Len(op'.texts)>>
       /\ calls' = <<>>
       /\ storage' = storage
       /\ index' = index]_vars

C2_Witness ==
  /\ Mismatched
  /\ result.kind = "ValueError"
  /\ calls = <<>>
  /\ Len(op.metadatas.list) < Len(op.texts)
  /\ DOMAIN storage # {}

\* C3: after any sequence of add_texts calls the ids of the index and the
\* keys of document storage are the same set.
C3_IndexIffStorage == DOMAIN index = DOMAIN storage

\* C4: a scored search that returns, returns one (document, distance) pair
\* per neighbour of the searcher's answer, the i-th pair holding the document
\* stored under the i-th id and the i-th distance, in the searcher's order;
\* and it does return when every id is stored and no delegate raises.
C4_RoundTrip ==
  IsScoredSearch =>
    /\ result.kind = "ok" =>
         /\ Len(result.value) = Len(op.env.response)
         /\ \A i \in 1..Len(op.env.response) :
              /\ op.env.response[i][1] \in DOMAIN storage
              /\ result.value[i] = <<storage[op.env.response[i][1]],
                                     op.env.response[i][2]>>
    /\ (op.env.fail = "none" /\ Range(ResponseIds) \subseteq DOMAIN storage)
         => result.kind = "ok"

C4_Witness ==
  /\ IsScoredSearch
  /\ result.kind = "ok"
  /\ Len(result.value) = 2
  /\ ResponseIds[1] > ResponseIds[2]
  /\ result.value[1][1] # result.value[2][1]

\* C5: a scored search whose searcher answers with an id that storage does
\* not hold raises the consistency error naming exactly the missing ids, in
\* answer order, and returns nothing.
C5_MissingDocumentFails ==
  (/\ IsScoredSearch
   /\ op.env.fail = "none"
   /\ ~(Range(ResponseIds) \subseteq DOMAIN storage)) =>
    /\ result.kind = "ValueError"
    /\ result.value = SelectSeq(ResponseIds, LAMBDA key : key \notin DOMAIN storage)

C5_Witness ==
  /\ IsScoredSearch
  /\ result.kind = "ValueError"
  /\ Len(op.env.response) = 2
  /\ ResponseIds[1] \in DOMAIN storage
  /\ ResponseIds[2] \notin DOMAIN storage

\* C6: similarity_search returns the documents of similarity_search_with_score
\* for the same arguments, backend and environment, distances dropped, same
\* order and length, and raises exactly what and when that one raises.
C6_SearchDropsDistances ==
  op.name = "similarity_search" =>
    LET scored == similarity_search_with_score(
                    storage, op.query, op.k, op.filter, op.numeric_filter,
                    op.env).result
    IN /\ (scored.kind = "ok") = (result.kind = "ok")
       /\ scored.kind # "ok" => result = scored
       /\ scored.kind = "ok" =>
            /\ Len(result.value) = Len(scored.value)
            /\ \A i \in 1..Len(scored.value) :
                 scored.value[i] = <<result.value[i], op.env.response[i][2]>>

C6_Witness ==
  /\ op.name = "similarity_search"
  /\ result.kind = "ok"
  /\ Len(result.value) = 2
  /\ result.value[1] # result.value[2]

\* C7: from_texts raises the unsupported-operation error whatever it is
\* given, returns no store, calls no delegate and changes no backend.
C7_FromTextsAlwaysFails ==
  [][op'.name = "from_texts" =>
       /\ result'.kind = "NotImplementedError"
       /\ calls' = <<>>
       /\ storage' = storage
       /\ index' = index]_vars

C7_Witness ==
  /\ op.name = "from_texts"
  /\ result.kind = "NotImplementedError"
  /\ Len(op.texts) > 0
  /\ DOMAIN storage # {}

\* C8: an add_texts that passes validation calls mset, then embed_documents,
\* then add_to_index, stopping at the first that raises; add_to_index is only
\* called with ids that an earlier mset of the same call has written.
C8_WriteBeforeIndex ==
  PassedValidation =>
    /\ Len(calls) >= 1
    /\ IsPrefix(CallNames, <<"mset", "embed_documents", "add_to_index">>)
    /\ result.kind = "ok" => Len(calls) = 3
    /\ \A j \in 1..Len(calls) :
         calls[j].fn = "add_to_index" =>
           \E i \in 1..(j - 1) :
             /\ calls[i].fn = "mset"
             /\ Range(calls[j].args[1]) \subseteq Range(Firsts(calls[i].args[1]))

C8_Witness ==
  /\ PassedValidation
  /\ result.kind = "ok"
  /\ Len(op.texts) = 2
  /\ CallNames = <<"mset", "embed_documents", "add_to_index">>

\* C9: when add_to_index raises after mset has written, add_texts raises that
\* same error, returns no ids, makes no further call, and the documents it
\* wrote stay in storage without an index entry.
C9_OrphansOnIndexFailure ==
  (IsAddTexts /\ ~Mismatched /\ op.env.fail = "add_to_index") =>
    /\ result.kind = "DelegateError"
    /\ result.value = "add_to_index"
    /\ CallNames = <<"mset", "embed_documents", "add_to_index">>
    /\ Len(calls[1].args[1]) = Len(op.texts)
    /\ \A i \in 1..Len(calls[1].args[1]) :
         /\ calls[1].args[1][i][1] \in DOMAIN storage
         /\ storage[calls[1].args[1][i][1]] = calls[1].args[1][i][2]
         /\ calls[1].args[1][i][1] \notin DOMAIN index

C9_Witness ==
  /\ IsAddTexts
  /\ result.kind = "DelegateError"
  /\ result.value = "add_to_index"
  /\ Len(op.texts) = 1
  /\ DOMAIN index # {}
  /\ calls[1].args[1][1][1] \in DOMAIN storage
  /\ calls[1].args[1][1][1] \notin DOMAIN index

\* C10: every id of the index is a key of document storage, and a search
\* whose searcher answers only ids of its index does not raise the
\* missing-document error.
C10_IndexWithinStorage ==
  /\ DOMAIN index \subseteq DOMAIN storage
  /\ (IsSearch /\ op.env.fail = "none"
        /\ Range(ResponseIds) \subseteq DOMAIN index) => result.kind = "ok"

C10_Witness ==
  /\ IsSearch
  /\ result.kind = "ok"
  /\ Len(op.env.response) > 0
  /\ Range(ResponseIds) \subseteq DOMAIN index
  /\ DOMAIN storage # DOMAIN index
====
